---- MODULE Spec2Model ----
(***************************************************************************)
(* claude-commit: the agent session loop and message extraction of         *)
(* generate_commit_message, the action dispatch of main (main.py), and the *)
(* Spinner thread protocol (spinner.py).                                    *)
(*                                                                         *)
(* A Python str is a sequence of one-character strings.  The backtick and  *)
(* the apostrophe are written BT and APOS.  An Optional[str] is a sequence *)
(* of at most one str: None is <<>>, a present string s is <<s>>.          *)
(***************************************************************************)
EXTENDS Integers, Sequences, FiniteSets, TLC

VARIABLES
    args,            \* main: the parsed flags [preview, copy, commit]
    pc,              \* main: where the run stands
    sessions,        \* number of agent sessions opened by query(...)
    nEvents,         \* number of stream messages consumed so far
    all_text,        \* generate_commit_message: all_text
    commit_message,  \* generate_commit_message: commit_message (Optional)
    readLog,         \* the value of all_text the last extraction read (Optional)
    ending,          \* how the session ended
    result,          \* main: commit_message, the value asyncio.run returned
    response,        \* main: the answer given to input(...) (Optional)
    effects,         \* the dispatch actions performed, in order
    exit_code,       \* process exit status, -1 while running
    candidate,       \* cleanup harness: the string under construction
    cleaned,         \* cleanup harness: cleanup(candidate) (Optional)
    recleaned,       \* cleanup harness: cleanup of the cleaned string (Optional)
    running,         \* Spinner.running
    thread,          \* Spinner.thread: 0 is None, else the thread's number
    tpc,             \* per thread: position inside Spinner._spin
    mpc,             \* the caller of start()/stop(): "idle" or "join"
    nCalls           \* start()/stop() calls made so far

mainVars == <<args, pc, sessions, nEvents, all_text, commit_message, readLog,
              ending, result, response, effects, exit_code>>
cleanVars == <<candidate, cleaned, recleaned>>
spinVars == <<running, thread, tpc, mpc, nCalls>>
vars == <<mainVars, cleanVars, spinVars>>

---------------------------------------------------------------------------
(* Bounds *)

\* stream messages consumed in one session
MaxEvents == 3
\* characters of a cleanup-harness candidate
MaxLen == 6
\* Spinner threads ever created
MaxThreads == 3
\* start()/stop() calls
MaxCalls == 5

---------------------------------------------------------------------------
(* Python str operations *)

None == <<>>
Some(s) == <<s>>

BT == "BT"
APOS == "APOS"
NL == "\n"
SP == " "

\* the characters str.strip() removes
Whitespace == {" ", "\n", "\t", "\r"}

RECURSIVE lstrip(_)
lstrip(s) == IF s # <<>> /\ Head(s) \in Whitespace THEN lstrip(Tail(s)) ELSE s

RECURSIVE rstrip(_)
rstrip(s) ==
    IF s # <<>> /\ s[Len(s)] \in Whitespace
    THEN rstrip(SubSeq(s, 1, Len(s) - 1))
    ELSE s

strip(s) == lstrip(rstrip(s))

startswith(s, prefix) ==
    Len(s) >= Len(prefix) /\ SubSeq(s, 1, Len(prefix)) = prefix

\* the matches of sub in s: the positions where an occurrence starts
Occurrences(s, sub) ==
    {i \in 1..(Len(s) - Len(sub) + 1) : SubSeq(s, i, i + Len(sub) - 1) = sub}

\* the in operator on str
contains(s, sub) == Occurrences(s, sub) # {}

\* str.find: the lowest index of sub in s, 0 when there is none (1-based)
find(s, sub) ==
    IF Occurrences(s, sub) = {} THEN 0
    ELSE CHOOSE i \in Occurrences(s, sub) : \A j \in Occurrences(s, sub) : i <= j

\* str.split(sep): every occurrence, left to right
RECURSIVE split(_, _)
split(s, sep) ==
    LET i == find(s, sep) IN
    IF i = 0 THEN <<s>>
    ELSE <<SubSeq(s, 1, i - 1)>> \o split(SubSeq(s, i + Len(sep), Len(s)), sep)

\* str.split(sep, 1): at the first occurrence only
split1(s, sep) ==
    LET i == find(s, sep) IN
    IF i = 0 THEN <<s>>
    ELSE <<SubSeq(s, 1, i - 1), SubSeq(s, i + Len(sep), Len(s))>>

\* sep.join(parts)
RECURSIVE join(_, _)
join(sep, parts) ==
    IF parts = <<>> THEN <<>>
    ELSE IF Len(parts) = 1 THEN parts[1]
    ELSE parts[1] \o sep \o join(sep, Tail(parts))

UpperCase == <<"A", "B", "C", "D", "E", "F", "G", "H", "I", "J", "K", "L", "M",
               "N", "O", "P", "Q", "R", "S", "T", "U", "V", "W", "X", "Y", "Z">>
LowerCase == <<"a", "b", "c", "d", "e", "f", "g", "h", "i", "j", "k", "l", "m",
               "n", "o", "p", "q", "r", "s", "t", "u", "v", "w", "x", "y", "z">>

lowerChar(c) ==
    IF \E i \in DOMAIN UpperCase : UpperCase[i] = c
    THEN LowerCase[CHOOSE i \in DOMAIN UpperCase : UpperCase[i] = c]
    ELSE c

\* str.lower()
lower(s) == [i \in 1..Len(s) |-> lowerChar(s[i])]

---------------------------------------------------------------------------
(* generate_commit_message: markdown cleanup (main.py 175-188) *)

FENCE == <<BT, BT, BT>>

is_fence_unstripped(line) == startswith(line, FENCE)

\* line.strip().startswith(three backticks)
is_fence(line) == startswith(strip(line), FENCE)

\* the for loop over lines: the surviving lines, given in_code_block
RECURSIVE cleaned_lines(_, _)
cleaned_lines(lines, in_code_block) ==
    IF lines = <<>> THEN <<>>
    ELSE LET line == Head(lines) IN
         IF is_fence(line)
         THEN cleaned_lines(Tail(lines), ~in_code_block)
         ELSE IF ~in_code_block /\ strip(line) # <<>>
         THEN <<rstrip(line)>> \o cleaned_lines(Tail(lines), in_code_block)
         ELSE cleaned_lines(Tail(lines), in_code_block)

cleanup(message) ==
    strip(join(<<NL>>, cleaned_lines(split(message, <<NL>>), FALSE)))

---------------------------------------------------------------------------
(* generate_commit_message: extraction at a ResultMessage (main.py 153-188) *)

MARKER == <<"C", "O", "M", "M", "I", "T", "_", "M", "E", "S", "S", "A", "G", "E", ":">>

\* the filler prefixes of the fallback scan (main.py 170)
FillerPrefixes == <<
    <<"l", "e", "t", SP, "m", "e">>,
    <<"i", APOS, "l", "l">>,
    <<"i", SP, "w", "i", "l", "l">>,
    <<"n", "o", "w", SP, "i">>,
    <<"f", "i", "r", "s", "t">>,
    <<"i", SP, "c", "a", "n", SP, "s", "e", "e">> >>

\* any(text.lower().startswith(prefix) for prefix in [...])
is_filler(text) ==
    \E k \in DOMAIN FillerPrefixes : startswith(lower(text), FillerPrefixes[k])

\* the last occurrence instead of the first (rsplit)
marker_candidate_last(prev, full_response) ==
    LET occ == Occurrences(full_response, MARKER)
        i == CHOOSE i \in occ : \A j \in occ : j <= i
    IN Some(strip(SubSeq(full_response, i + Len(MARKER), Len(full_response))))

\* parts = full_response.split(MARKER, 1); commit_message = parts[1].strip()
marker_candidate(prev, full_response) ==
    LET parts == split1(full_response, MARKER) IN
    IF Len(parts) > 1 THEN Some(strip(parts[2])) ELSE prev

\* the scan in arrival order instead of reversed
RECURSIVE fallback_candidate_forward(_, _)
fallback_candidate_forward(prev, texts) ==
    IF texts = <<>> THEN prev
    ELSE LET text == strip(Head(texts)) IN
         IF text # <<>> /\ ~is_filler(text) THEN Some(text)
         ELSE fallback_candidate_forward(prev, Tail(texts))

\* for text in reversed(all_text): the first non-empty, non-filler text
RECURSIVE fallback_candidate(_, _)
fallback_candidate(prev, texts) ==
    IF texts = <<>> THEN prev
    ELSE LET text == strip(texts[Len(texts)]) IN
         IF text # <<>> /\ ~is_filler(text) THEN Some(text)
         ELSE fallback_candidate(prev, SubSeq(texts, 1, Len(texts) - 1))

\* Python truthiness of an Optional[str]
truthy(message) == message # None /\ message[1] # <<>>

\* the body of "if not message.is_error:" given the current commit_message
extract(prev, texts) ==
    LET full_response == join(<<NL>>, texts)
        found == IF contains(full_response, MARKER)
                 THEN marker_candidate(prev, full_response)
                 ELSE fallback_candidate(prev, texts)
    IN IF truthy(found) THEN Some(cleanup(found[1])) ELSE found

---------------------------------------------------------------------------
(* The agent's stream and the operator's answers *)

\* TextBlock.text values the agent may send
Texts == {
    <<>>,
    <<"L", "e", "t", SP, "m", "e">>,
    <<"i", APOS, "l", "l">>,
    <<"f", "i", "x">>,
    <<SP, "a", SP, NL, NL, SP, "b", NL>>,
    MARKER \o <<SP, "f", "i", "x">>,
    MARKER,
    MARKER \o <<NL, BT, BT, BT, NL, "f", "i", "x", NL, BT, BT, BT>>,
    <<"x">> \o MARKER \o <<"a", SP>> \o MARKER \o <<"b">>,
    <<BT, BT, BT, NL, "f", "i", "x", NL, BT, BT, BT>> }

\* answers typed at the confirmation prompt
Responses == {
    <<>>, <<"y">>, <<"Y">>, <<"n">>, <<"y", "e", "s">>, <<SP, "y">>, <<"y", SP>> }

ErrorKinds == {"CLINotFoundError", "ProcessError", "Exception"}

---------------------------------------------------------------------------
(* Initial states *)

Flags == [preview : BOOLEAN, copy : BOOLEAN, commit : BOOLEAN]
ThreadIds == 1..MaxThreads

MainInit ==
    /\ pc = "start"
    /\ sessions = 0
    /\ nEvents = 0
    /\ all_text = <<>>
    /\ commit_message = None
    /\ readLog = None
    /\ ending = "none"
    /\ result = None
    /\ response = None
    /\ effects = <<>>
    /\ exit_code = -1

CleanInit ==
    /\ candidate = <<>>
    /\ cleaned = None
    /\ recleaned = None

\* Spinner.__init__
SpinInit ==
    /\ running = FALSE
    /\ thread = 0
    /\ tpc = [t \in ThreadIds |-> "none"]
    /\ mpc = "idle"
    /\ nCalls = 0

\* args = parser.parse_args(): any combination of the three flags
Init ==
    /\ args \in Flags
    /\ MainInit
    /\ CleanInit
    /\ SpinInit

\* the cleanup harness and the Spinner run with no command line
InitIdle ==
    /\ args = [preview |-> FALSE, copy |-> FALSE, commit |-> FALSE]
    /\ MainInit
    /\ CleanInit
    /\ SpinInit

---------------------------------------------------------------------------
(* generate_commit_message: the session *)

sessionVars == <<sessions, nEvents, all_text, commit_message, readLog>>
otherVars == <<cleanVars, spinVars>>

\* main calls asyncio.run(generate_commit_message(...)), which opens query(...)
OpenSession ==
    /\ pc = "start"
    /\ pc' = "session"
    /\ sessions' = sessions + 1
    /\ commit_message' = None
    /\ all_text' = <<>>
    /\ UNCHANGED <<args, nEvents, readLog, ending, result, response, effects,
                   exit_code, otherVars>>

\* an AssistantMessage with a TextBlock: all_text.append(block.text.strip())
RecvText(text) ==
    /\ pc = "session"
    /\ nEvents < MaxEvents
    /\ nEvents' = nEvents + 1
    /\ all_text' = Append(all_text, strip(text))
    /\ UNCHANGED <<args, pc, sessions, commit_message, readLog, ending, result,
                   response, effects, exit_code, otherVars>>

\* a message that is neither text nor a ResultMessage (tool use, tool result)
RecvOther ==
    /\ pc = "session"
    /\ nEvents < MaxEvents
    /\ nEvents' = nEvents + 1
    /\ UNCHANGED <<args, pc, sessions, all_text, commit_message, readLog, ending,
                   result, response, effects, exit_code, otherVars>>

\* a ResultMessage: extraction when it is not an error
RecvResult(is_error) ==
    /\ pc = "session"
    /\ nEvents < MaxEvents
    /\ nEvents' = nEvents + 1
    /\ IF is_error
       THEN UNCHANGED <<commit_message, readLog>>
       ELSE /\ commit_message' = extract(commit_message, all_text)
            /\ readLog' = Some(all_text)
    /\ UNCHANGED <<args, pc, sessions, all_text, ending, result, response,
                   effects, exit_code, otherVars>>

\* the stream ends: return commit_message
StreamEnd ==
    /\ pc = "session"
    /\ pc' = "dispatch"
    /\ ending' = "returned"
    /\ result' = commit_message
    /\ UNCHANGED <<args, sessionVars, response, effects, exit_code, otherVars>>

\* the handler returns what was extracted so far
SessionErrorKeepsMessage(kind) ==
    /\ pc = "session"
    /\ pc' = "dispatch"
    /\ ending' = kind
    /\ result' = commit_message
    /\ UNCHANGED <<args, sessionVars, response, effects, exit_code, otherVars>>

\* query raises CLINotFoundError, ProcessError or another Exception: return None
SessionError(kind) ==
    /\ pc = "session"
    /\ pc' = "dispatch"
    /\ ending' = kind
    /\ result' = None
    /\ UNCHANGED <<args, sessionVars, response, effects, exit_code, otherVars>>

\* the interrupt is caught by the session's generic handler
InterruptSwallowed ==
    /\ pc = "session"
    /\ pc' = "dispatch"
    /\ ending' = "KeyboardInterrupt"
    /\ result' = None
    /\ UNCHANGED <<args, sessionVars, response, effects, exit_code, otherVars>>

\* Ctrl-C during asyncio.run: except KeyboardInterrupt: sys.exit(130)
Interrupt ==
    /\ pc = "session"
    /\ pc' = "exited"
    /\ ending' = "KeyboardInterrupt"
    /\ exit_code' = 130
    /\ UNCHANGED <<args, sessionVars, result, response, effects, otherVars>>

---------------------------------------------------------------------------
(* main: dispatch *)

Platforms == {"Darwin", "Linux", "Windows"}

is_none(message) == message = None

\* not commit_message
falsy(message) == ~truthy(message)

\* the copy branch: subprocess.run on Darwin and Linux, a warning elsewhere
copy_effects(platform) ==
    IF platform \in {"Darwin", "Linux"} THEN <<"clipboard">> ELSE <<>>

\* copy and commit are handled before preview is looked at
DispatchPreviewLast ==
    /\ pc = "dispatch"
    /\ IF falsy(result)
       THEN /\ pc' = "exited"
            /\ exit_code' = 1
            /\ UNCHANGED effects
       ELSE \E platform \in Platforms :
            LET shown == <<"display">>
                copied == IF args.copy THEN shown \o copy_effects(platform) ELSE shown
            IN IF args.commit
               THEN /\ effects' = Append(copied, "prompt")
                    /\ pc' = "prompt"
                    /\ UNCHANGED exit_code
               ELSE /\ effects' = IF args.preview THEN copied
                                  ELSE Append(copied, "suggest")
                    /\ pc' = "exited"
                    /\ exit_code' = 0
    /\ UNCHANGED <<args, sessionVars, ending, result, response, otherVars>>

\* main.py 295-333 and 356-362: from the returned message to the prompt or exit
Dispatch ==
    /\ pc = "dispatch"
    /\ IF falsy(result)
       THEN /\ pc' = "exited"
            /\ exit_code' = 1
            /\ UNCHANGED effects
       ELSE \E platform \in Platforms :
            LET shown == <<"display">>
                copied == IF args.copy THEN shown \o copy_effects(platform) ELSE shown
            IN IF args.preview
               THEN /\ effects' = shown
                    /\ pc' = "exited"
                    /\ exit_code' = 0
               ELSE IF args.commit
               THEN /\ effects' = Append(copied, "prompt")
                    /\ pc' = "prompt"
                    /\ UNCHANGED exit_code
               ELSE /\ effects' = Append(copied, "suggest")
                    /\ pc' = "exited"
                    /\ exit_code' = 0
    /\ UNCHANGED <<args, sessionVars, ending, result, response, otherVars>>

affirmative_prefix(answer) == startswith(lower(strip(answer)), <<"y">>)

\* the negation of: response.lower() != "y"
affirmative(answer) == lower(answer) = <<"y">>

\* main.py 333-355: the answer to input(...), then git commit
Answer(answer) ==
    /\ pc = "prompt"
    /\ pc' = "exited"
    /\ response' = Some(answer)
    /\ IF affirmative(answer)
       THEN /\ effects' = Append(effects, "commit")
            /\ \E committed \in BOOLEAN : exit_code' = IF committed THEN 0 ELSE 1
       ELSE /\ UNCHANGED effects
            /\ exit_code' = 0
    /\ UNCHANGED <<args, sessionVars, ending, result, otherVars>>

\* input(...) raises EOFError: except Exception: sys.exit(1)
PromptEOF ==
    /\ pc = "prompt"
    /\ pc' = "exited"
    /\ exit_code' = 1
    /\ UNCHANGED <<args, sessionVars, ending, result, response, effects, otherVars>>

Next ==
    \/ OpenSession
    \/ \E text \in Texts : RecvText(text)
    \/ RecvOther
    \/ \E is_error \in BOOLEAN : RecvResult(is_error)
    \/ StreamEnd
    \/ \E kind \in ErrorKinds : SessionError(kind)
    \/ Interrupt
    \/ Dispatch
    \/ \E answer \in Responses : Answer(answer)
    \/ PromptEOF

Spec == Init /\ [][Next]_vars

---------------------------------------------------------------------------
(* The cleanup step applied to arbitrary candidates, and again to its result *)

CleanAlphabet == {"a", SP, NL, BT}

\* a candidate commit_message, one character at a time
Type(c) ==
    /\ cleaned = None
    /\ Len(candidate) < MaxLen
    /\ candidate' = Append(candidate, c)
    /\ UNCHANGED <<cleaned, recleaned, mainVars, spinVars>>

\* main.py 177-188 on the candidate
Clean ==
    /\ cleaned = None
    /\ cleaned' = Some(cleanup(candidate))
    /\ UNCHANGED <<candidate, recleaned, mainVars, spinVars>>

\* main.py 177-188 on the already-cleaned string
Reclean ==
    /\ cleaned # None
    /\ recleaned = None
    /\ recleaned' = Some(cleanup(cleaned[1]))
    /\ UNCHANGED <<candidate, cleaned, mainVars, spinVars>>

CleanNext ==
    \/ \E c \in CleanAlphabet : Type(c)
    \/ Clean
    \/ Reclean

SpecCleanup == InitIdle /\ [][CleanNext]_vars

---------------------------------------------------------------------------
(* Spinner (spinner.py) *)

Created == {t \in ThreadIds : tpc[t] # "none"}

\* start(): if not self.running: set the flag, create and start the thread
Start ==
    /\ mpc = "idle"
    /\ nCalls < MaxCalls
    /\ running \/ Cardinality(Created) < MaxThreads
    /\ nCalls' = nCalls + 1
    /\ IF ~running
       THEN /\ running' = TRUE
            /\ thread' = Cardinality(Created) + 1
            /\ tpc' = [tpc EXCEPT ![Cardinality(Created) + 1] = "test"]
       ELSE UNCHANGED <<running, thread, tpc>>
    /\ UNCHANGED <<mpc, mainVars, cleanVars>>

\* stop(): if self.running: clear the flag, then thread.join(timeout=0.5)
Stop ==
    /\ mpc = "idle"
    /\ nCalls < MaxCalls
    /\ nCalls' = nCalls + 1
    /\ IF running
       THEN /\ running' = FALSE
            /\ mpc' = IF thread # 0 THEN "join" ELSE "idle"
       ELSE UNCHANGED <<running, mpc>>
    /\ UNCHANGED <<thread, tpc, mainVars, cleanVars>>

\* join(timeout=0.5) returns: the thread has ended, or the timeout has passed
JoinReturn ==
    /\ mpc = "join"
    /\ mpc' = "idle"
    /\ UNCHANGED <<running, thread, tpc, nCalls, mainVars, cleanVars>>

\* _spin: the test of "while self.running"
SpinTest(t) ==
    /\ tpc[t] = "test"
    /\ tpc' = [tpc EXCEPT ![t] = IF running THEN "write" ELSE "clear"]
    /\ UNCHANGED <<running, thread, mpc, nCalls, mainVars, cleanVars>>

\* _spin: the loop body: write the frame, flush, sleep, idx += 1
SpinWrite(t) ==
    /\ tpc[t] = "write"
    /\ tpc' = [tpc EXCEPT ![t] = "test"]
    /\ UNCHANGED <<running, thread, mpc, nCalls, mainVars, cleanVars>>

\* _spin: clear the line when done
SpinClear(t) ==
    /\ tpc[t] = "clear"
    /\ tpc' = [tpc EXCEPT ![t] = "done"]
    /\ UNCHANGED <<running, thread, mpc, nCalls, mainVars, cleanVars>>

SpinNext ==
    \/ Start
    \/ Stop
    \/ JoinReturn
    \/ \E t \in ThreadIds : SpinTest(t)
    \/ \E t \in ThreadIds : SpinWrite(t)
    \/ \E t \in ThreadIds : SpinClear(t)

SpecSpinner == InitIdle /\ [][SpinNext]_vars

---------------------------------------------------------------------------
(* Vocabulary of the properties, stated without the operators of the code *)

\* a commit message was produced: present and non-empty
Produced == result # None /\ result[1] # <<>>

Has(effect) == \E i \in DOMAIN effects : effects[i] = effect

\* s without its leading and trailing whitespace, by positions
TrimOf(s) ==
    LET solid == {i \in DOMAIN s : s[i] \notin Whitespace} IN
    IF solid = {} THEN <<>>
    ELSE SubSeq(s, CHOOSE a \in solid : \A i \in solid : a <= i,
                   CHOOSE b \in solid : \A i \in solid : i <= b)

\* the lines of s: the stretches between newlines
LineStarts(s) == {1} \cup {i + 1 : i \in {j \in DOMAIN s : s[j] = NL}}
LineAt(s, a) ==
    LET ends == {j \in a..Len(s) : s[j] = NL}
        e == IF ends = {} THEN Len(s) + 1 ELSE CHOOSE j \in ends : \A k \in ends : j <= k
    IN SubSeq(s, a, e - 1)
LinesOf(s) == {LineAt(s, a) : a \in LineStarts(s)}

IsBlankLine(line) == \A i \in DOMAIN line : line[i] \in Whitespace
IsFenceLine(line) ==
    LET t == TrimOf(line) IN
    Len(t) >= 3 /\ t[1] = BT /\ t[2] = BT /\ t[3] = BT

\* nothing for the cleanup step to remove
MarkdownFree(s) ==
    \A line \in LinesOf(s) :
        /\ ~IsBlankLine(line)
        /\ ~IsFenceLine(line)
        /\ line[Len(line)] \notin Whitespace

WellFormed(s) ==
    /\ s # <<>>
    /\ s[1] \notin Whitespace
    /\ s[Len(s)] \notin Whitespace
    /\ \A line \in LinesOf(s) : ~IsBlankLine(line) /\ ~IsFenceLine(line)

\* the newline-joined blob of a log
RECURSIVE BlobOf(_)
BlobOf(log) ==
    IF log = <<>> THEN <<>>
    ELSE IF Len(log) = 1 THEN log[1]
    ELSE BlobOf(SubSeq(log, 1, Len(log) - 1)) \o <<NL>> \o log[Len(log)]

MarkerAt(blob, i) ==
    /\ i + Len(MARKER) - 1 <= Len(blob)
    /\ \A k \in DOMAIN MARKER : blob[i + k - 1] = MARKER[k]
MarkerPositions(blob) == {i \in DOMAIN blob : MarkerAt(blob, i)}

\* everything after the first occurrence of the marker, trimmed
FirstMarkerSuffix(blob) ==
    LET first == CHOOSE i \in MarkerPositions(blob) :
                     \A j \in MarkerPositions(blob) : i <= j
    IN TrimOf(SubSeq(blob, first + Len(MARKER), Len(blob)))

FoldsTo(c, l) == c = l \/ \E i \in DOMAIN UpperCase : UpperCase[i] = c /\ LowerCase[i] = l
FillerPrefixed(entry) ==
    \E k \in DOMAIN FillerPrefixes :
        /\ Len(entry) >= Len(FillerPrefixes[k])
        /\ \A i \in DOMAIN FillerPrefixes[k] : FoldsTo(entry[i], FillerPrefixes[k][i])

\* the session returned normally after an extraction read the log
ReturnedAfterRead == ending = "returned" /\ readLog # None
ReadBlob == BlobOf(readLog[1])
ReadByMarker == ReturnedAfterRead /\ MarkerPositions(ReadBlob) # {}
ReadByFallback == ReturnedAfterRead /\ MarkerPositions(ReadBlob) = {}

---------------------------------------------------------------------------
(* Properties *)

\* C1: with the preview flag set and a message produced, the run only
\* displays the message and exits 0, whatever the copy and commit flags are:
\* no clipboard write, no prompt, no git commit, no suggestion.
PreviewOnly ==
    args.preview =>
        /\ \A i \in DOMAIN effects : effects[i] = "display"
        /\ response = None
        /\ (pc = "exited" /\ Produced) => (effects = <<"display">> /\ exit_code = 0)

PreviewOnlyWitness ==
    /\ pc = "exited"
    /\ args.preview /\ args.copy /\ args.commit
    /\ Produced
    /\ effects = <<"display">>
    /\ exit_code = 0

\* C2: git commit is invoked only after the prompt was answered with exactly
\* y or Y; any other answer leaves the commit uninvoked and the run exits 0.
ConfirmationGate ==
    /\ Has("commit") =>
          /\ response \in {Some(<<"y">>), Some(<<"Y">>)}
          /\ \E i, j \in DOMAIN effects :
                i < j /\ effects[i] = "prompt" /\ effects[j] = "commit"
          /\ args.commit /\ ~args.preview
    /\ (response # None /\ response[1] \notin {<<"y">>, <<"Y">>}) =>
          ~Has("commit") /\ exit_code = 0 /\ pc = "exited"

ConfirmationGateWitness ==
    /\ pc = "exited"
    /\ response = Some(<<"y", SP>>)
    /\ Has("prompt")
    /\ ~Has("commit")
    /\ exit_code = 0

\* C3: when the session raises CLINotFoundError, ProcessError or another
\* Exception, at any point of the stream, generate_commit_message returns
\* None, the run exits 1, no dispatch action happens, and no second session
\* is opened.
AgentFailureCollapses ==
    /\ sessions <= 1
    /\ ending \in ErrorKinds =>
          /\ result = None
          /\ effects = <<>>
          /\ response = None
          /\ pc \in {"dispatch", "exited"}
          /\ pc = "exited" => exit_code = 1

AgentFailureWitness ==
    /\ ending = "ProcessError"
    /\ pc = "exited"
    /\ exit_code = 1
    /\ commit_message # None /\ commit_message[1] # <<>>
    /\ readLog # None

\* C4: an interrupt while the session is in flight ends the run with exit
\* status 130, and no message, not even one already extracted, is displayed,
\* copied or committed.
InterruptExits130 ==
    ending = "KeyboardInterrupt" =>
        /\ pc = "exited"
        /\ exit_code = 130
        /\ effects = <<>>
        /\ result = None

InterruptWitness ==
    /\ ending = "KeyboardInterrupt"
    /\ exit_code = 130
    /\ commit_message # None /\ commit_message[1] # <<>>

\* C5 as stated: when the blob read contains the marker, the message
\* returned is exactly the trimmed suffix after the first occurrence.
MarkerSuffixExact ==
    ReadByMarker => result = Some(FirstMarkerSuffix(ReadBlob))

\* C5 amended: when the blob read contains the marker, the message returned
\* is the markdown-cleaned form of the trimmed suffix after the FIRST
\* occurrence, whatever further occurrences follow; it is exactly that
\* suffix when the suffix has no fence line, no blank line and no line
\* ending in whitespace.
MarkerSuffixCleaned ==
    ReadByMarker =>
        /\ result # None
        /\ result[1] = cleanup(FirstMarkerSuffix(ReadBlob))
        /\ MarkdownFree(FirstMarkerSuffix(ReadBlob)) =>
               result[1] = FirstMarkerSuffix(ReadBlob)

MarkerSuffixWitness ==
    /\ ReadByMarker
    /\ Cardinality(MarkerPositions(ReadBlob)) >= 2
    /\ Produced
    /\ result[1] # FirstMarkerSuffix(ReadBlob)

\* C6 as stated: without the marker, the message returned is the last
\* entry that does not start with a filler prefix, and no message is
\* produced when every entry is filler-prefixed or the log is empty (an
\* empty last entry counts as no message).
FallbackLastNonFiller ==
    ReadByFallback =>
        LET log == readLog[1]
            plain == {i \in DOMAIN log : ~FillerPrefixed(log[i])}
            last == log[CHOOSE i \in plain : \A j \in plain : j <= i]
        IN IF plain = {} \/ last = <<>> THEN ~Produced
           ELSE result = Some(last)

\* C6 amended: without the marker, the message returned is the
\* markdown-cleaned form of the last entry that is non-empty and does not
\* case-insensitively start with a filler prefix, and None when every entry
\* is empty or filler-prefixed or the log is empty.
FallbackLastMeaningful ==
    ReadByFallback =>
        LET log == readLog[1]
            plain == {i \in DOMAIN log : log[i] # <<>> /\ ~FillerPrefixed(log[i])}
        IN IF plain = {} THEN result = None
           ELSE /\ result # None
                /\ LET entry == log[CHOOSE i \in plain : \A j \in plain : j <= i]
                   IN /\ result[1] = cleanup(entry)
                      /\ MarkdownFree(entry) => result[1] = entry

FallbackWitness ==
    /\ ReadByFallback
    /\ Len(readLog[1]) >= 2
    /\ readLog[1][1] # <<>> /\ ~FillerPrefixed(readLog[1][1])
    /\ FillerPrefixed(readLog[1][2])
    /\ readLog[1][2] \notin {FillerPrefixes[k] : k \in DOMAIN FillerPrefixes}
    /\ result = Some(readLog[1][1])

CleanupIdempotent ==
    recleaned # None => recleaned = cleaned

CleanupIdempotentWitness ==
    /\ recleaned # None
    /\ cleaned[1] # <<>>
    /\ cleaned[1] # candidate
    /\ \E i \in DOMAIN candidate : candidate[i] = BT

\* C9: every dispatch action acts on a message that is non-empty, has no
\* leading or trailing whitespace, no blank line and no fence line; a run
\* whose extraction ended with the empty string exits 1 with no dispatch
\* action, as for None.
ActsOnlyOnPresentMessage ==
    /\ effects # <<>> => (result # None /\ WellFormed(result[1]))
    /\ (pc = "exited" /\ ending = "returned" /\ ~Produced) =>
           (exit_code = 1 /\ effects = <<>>)

EmptyMessageWitness ==
    /\ pc = "exited"
    /\ ending = "returned"
    /\ result = Some(<<>>)
    /\ exit_code = 1
    /\ effects = <<>>

\* C10: at most one thread is inside the loop body of _spin at any time.
SingleRenderer ==
    Cardinality({t \in ThreadIds : tpc[t] = "write"}) <= 1

====
